---- MODULE Spec2Model ----
(***************************************************************************)
(* Model of the daily 60s-news plugin (src/main.py): the retrying          *)
(* downloader, the on-demand read path, the retention sweep, the           *)
(* broadcaster and the scheduler loop, run as asyncio tasks on one event   *)
(* loop.  One action is the code between two suspension points (awaits).   *)
(* File names and the push time are character sequences, parsed and        *)
(* formatted the way strptime / strftime / split / int do it.  The clock   *)
(* has a resolution of one second.                                         *)
(***************************************************************************)
EXTENDS Integers, Sequences, FiniteSets, TLC

VARIABLES config, now, files, task, cancelled, ncmds

vars == <<config, now, files, task, cancelled, ncmds>>

(***************************************************************************)
(* Bounds of the model.                                                    *)
(***************************************************************************)
\* number of calendar days after the first one the scheduler is followed for
MaxDays == 1
\* number of chat commands handled in one behaviour
MaxCmds == 1
\* oldest dated cache file considered, in days before the first day
MaxAge == 2

\* the first calendar day of a behaviour: 2024-02-28 as a proleptic ordinal
Day0 == 738944

Min(a, b) == IF a < b THEN a ELSE b

(***************************************************************************)
(* Calendar arithmetic of datetime.date.                                   *)
(***************************************************************************)
Digits == <<"0", "1", "2", "3", "4", "5", "6", "7", "8", "9">>

IsDigit(c) == \E i \in 1..10 : Digits[i] = c

DigitVal(c) == (CHOOSE i \in 1..10 : Digits[i] = c) - 1

IsLeap(y) == y % 4 = 0 /\ (y % 100 # 0 \/ y % 400 = 0)

DaysInMonth(y, m) ==
  IF m = 2 THEN (IF IsLeap(y) THEN 29 ELSE 28)
  ELSE IF m \in {4, 6, 9, 11} THEN 30 ELSE 31

DaysBeforeMonthTable == <<0, 31, 59, 90, 120, 151, 181, 212, 243, 273, 304, 334>>

DaysBeforeMonth(y, m) ==
  DaysBeforeMonthTable[m] + (IF m > 2 /\ IsLeap(y) THEN 1 ELSE 0)

DaysBeforeYear(y) ==
  (y - 1) * 365 + ((y - 1) \div 4) - ((y - 1) \div 100) + ((y - 1) \div 400)

\* date(y, m, d).toordinal()
ToOrdinal(y, m, d) == DaysBeforeYear(y) + DaysBeforeMonth(y, m) + d

\* date.fromordinal(n) as <<year, month, day>> (datetime._ord2ymd)
FromOrdinal(ord) ==
  LET n0   == ord - 1
      n400 == n0 \div 146097
      r400 == n0 % 146097
      n100 == r400 \div 36524
      r100 == r400 % 36524
      n4   == r100 \div 1461
      r4   == r100 % 1461
      n1   == r4 \div 365
      n    == r4 % 365
      year == n400 * 400 + 1 + n100 * 100 + n4 * 4 + n1
  IN IF n1 = 4 \/ n100 = 4 THEN <<year - 1, 12, 31>>
     ELSE LET leap  == n1 = 3 /\ (n4 # 24 \/ n100 = 3)
              m0    == (n + 50) \div 32
              prec0 == DaysBeforeMonthTable[m0] + (IF m0 > 2 /\ leap THEN 1 ELSE 0)
              month == IF prec0 > n THEN m0 - 1 ELSE m0
              prec  == IF prec0 > n
                       THEN prec0 - (DaysInMonth(year, m0 - 1))
                       ELSE prec0
          IN <<year, month, n - prec + 1>>

\* the decimal digits of v, zero-padded to width w (strftime %Y, %m, %d)
RECURSIVE Pad(_, _)
Pad(v, w) == IF w = 0 THEN <<>> ELSE Append(Pad(v \div 10, w - 1), Digits[(v % 10) + 1])

\* datetime.strftime("%Y%m%d") of the day with ordinal ord
StrfDate(ord) ==
  LET ymd == FromOrdinal(ord) IN Pad(ymd[1], 4) \o Pad(ymd[2], 2) \o Pad(ymd[3], 2)

\* the value of a non-empty sequence of digits
RECURSIVE DigitsVal(_)
DigitsVal(s) ==
  IF s = <<>> THEN 0 ELSE 10 * DigitsVal(SubSeq(s, 1, Len(s) - 1)) + DigitVal(s[Len(s)])

NoDate == -1

\* lengths the %m directive (1[0-2]|0[1-9]|[1-9]) can match at position p of
\* s, in the order the regular expression tries them
MonthLens(s, p) ==
  LET two == /\ p + 1 <= Len(s)
             /\ \/ s[p] = "1" /\ s[p + 1] \in {"0", "1", "2"}
                \/ s[p] = "0" /\ IsDigit(s[p + 1]) /\ s[p + 1] # "0"
      one == p <= Len(s) /\ IsDigit(s[p]) /\ s[p] # "0"
  IN (IF two THEN <<2>> ELSE <<>>) \o (IF one THEN <<1>> ELSE <<>>)

\* lengths the %d directive (3[0-1]|[1-2]\d|0[1-9]|[1-9]| [1-9]) can match at
\* position p of s, in the order the regular expression tries them
DayLens(s, p) ==
  LET two == /\ p + 1 <= Len(s)
             /\ \/ s[p] = "3" /\ s[p + 1] \in {"0", "1"}
                \/ s[p] \in {"1", "2"} /\ IsDigit(s[p + 1])
                \/ s[p] = "0" /\ IsDigit(s[p + 1]) /\ s[p + 1] # "0"
      one == p <= Len(s) /\ IsDigit(s[p]) /\ s[p] # "0"
      spc == /\ p + 1 <= Len(s)
             /\ s[p] = " " /\ IsDigit(s[p + 1]) /\ s[p + 1] # "0"
  IN (IF two THEN <<2>> ELSE <<>>) \o (IF one THEN <<1>> ELSE <<>>)
       \o (IF spc THEN <<2>> ELSE <<>>)

\* datetime.strptime(s, "%Y%m%d").date() as an ordinal; NoDate when strptime
\* raises ValueError (no match, unconverted data, or no such calendar day)
StrpDate(s) ==
  IF ~(Len(s) >= 4 /\ \A i \in 1..4 : IsDigit(s[i])) THEN NoDate
  ELSE LET y   == DigitsVal(SubSeq(s, 1, 4))
           ms  == MonthLens(s, 5)
           \* the first month alternative after which the day directive matches
           oks == {i \in 1..Len(ms) : DayLens(s, 5 + ms[i]) # <<>>}
       IN IF oks = {} THEN NoDate
          ELSE LET i    == CHOOSE j \in oks : \A k \in oks : j <= k
                   ml   == ms[i]
                   dl   == DayLens(s, 5 + ml)[1]
                   m    == DigitsVal(SubSeq(s, 5, 4 + ml))
                   dtxt == SubSeq(s, 5 + ml, 4 + ml + dl)
                   d    == IF dtxt[1] = " " THEN DigitVal(dtxt[2]) ELSE DigitsVal(dtxt)
               IN IF 4 + ml + dl # Len(s) THEN NoDate
                  ELSE IF y < 1 \/ d > DaysInMonth(y, m) THEN NoDate
                  ELSE ToOrdinal(y, m, d)

(***************************************************************************)
(* Configuration values and the push time "HH:MM".                         *)
(***************************************************************************)
Str0800 == <<"0", "8", ":", "0", "0">>
Str2400 == <<"2", "4", ":", "0", "0">>
StrNoColon == <<"0", "8", "0", "0">>
StrAlpha == <<"a", ":", "b">>

\* push times for which _calculate_sleep_time raises ValueError
InvalidPushTimes == {Str2400, StrNoColon, StrAlpha}

NewsTypes == {"vikiboss_api", "indirect", "direct"}

\* str.split(sep): the pieces of s between the separators
RECURSIVE Split(_, _)
Split(s, sep) ==
  IF \A i \in 1..Len(s) : s[i] # sep THEN <<s>>
  ELSE LET k == CHOOSE i \in 1..Len(s) : s[i] = sep /\ \A j \in 1..(i - 1) : s[j] # sep
       IN <<SubSeq(s, 1, k - 1)>> \o Split(SubSeq(s, k + 1, Len(s)), sep)

\* int(s) of an unsigned decimal literal; -1 when int raises ValueError
ParseInt(s) ==
  IF s # <<>> /\ \A i \in 1..Len(s) : IsDigit(s[i]) THEN DigitsVal(s) ELSE -1

SecondsPerDay == 86400

\* a point of local time: the day as an ordinal, and the second of that day
Time(day, sec) == [day |-> day, sec |-> sec]

\* t + timedelta(seconds = n), n >= 0
AddSeconds(t, n) ==
  Time(t.day + ((t.sec + n) \div SecondsPerDay), (t.sec + n) % SecondsPerDay)

\* (a - b).total_seconds()
TotalSeconds(a, b) == (a.day - b.day) * SecondsPerDay + (a.sec - b.sec)

TimeLE(a, b) == a.day < b.day \/ (a.day = b.day /\ a.sec <= b.sec)

Later(a, b) == IF TimeLE(a, b) THEN b ELSE a

\* the comparison with < in place of <=
PushIsPast_Strict(next_push, nw) == ~TimeLE(nw, next_push)

\* the comparison of line 292 that moves the push to tomorrow
PushIsPast(next_push, nw) == TimeLE(next_push, nw)

\* the configuration string of the push time hour:minute
PushTimeText(hour, minute) == Pad(hour, 2) \o <<":">> \o Pad(minute, 2)

PushMinutes == {0, 1, 30, 59}

\* the push times of the configurations considered
PushTimes ==
  {Str0800} \cup InvalidPushTimes
    \cup {PushTimeText(hour, minute) : hour \in 0..23, minute \in PushMinutes}

\* line 290: the hour and the minute read off each push time, -1 where int
\* raises, and no pair where the unpacking of the split raises
HourMinute ==
  [push_time \in PushTimes |->
     LET parts == Split(push_time, ":")
     IN IF Len(parts) # 2 THEN <<>>
        ELSE <<ParseInt(parts[1]), ParseInt(parts[2])>>]

\* the push time of today taken even when it is past
CalculateSleepTime_Today(nw, push_time) ==
  LET parts == HourMinute[push_time]
  IN IF Len(parts) # 2 THEN [raised |-> TRUE, value |-> 0]
     ELSE LET hour   == parts[1]
              minute == parts[2]
          IN IF hour = -1 \/ minute = -1 THEN [raised |-> TRUE, value |-> 0]
             ELSE IF hour > 23 \/ minute > 59 THEN [raised |-> TRUE, value |-> 0]
             ELSE LET today_push == Time(nw.day, hour * 3600 + minute * 60)
                      next_push  == today_push
                  IN [raised |-> FALSE, value |-> TotalSeconds(next_push, nw)]

\* _calculate_sleep_time: the seconds until the next push, or ValueError
CalculateSleepTime(nw, push_time) ==
  LET parts == HourMinute[push_time]
  IN IF Len(parts) # 2 THEN [raised |-> TRUE, value |-> 0]
     ELSE LET hour   == parts[1]
              minute == parts[2]
          IN IF hour = -1 \/ minute = -1 THEN [raised |-> TRUE, value |-> 0]
             ELSE IF hour > 23 \/ minute > 59 THEN [raised |-> TRUE, value |-> 0]
             ELSE LET today_push == Time(nw.day, hour * 3600 + minute * 60)
                      next_push  == IF PushIsPast(today_push, nw)
                                    THEN Time(today_push.day + 1, today_push.sec)
                                    ELSE today_push
                  IN [raised |-> FALSE, value |-> TotalSeconds(next_push, nw)]

(***************************************************************************)
(* The cache directory.                                                    *)
(***************************************************************************)
JpegExt == <<".", "j", "p", "e", "g">>

\* _get_news_file_path: the name of the cache file of the day of nw
NewsFileName(nw) == StrfDate(nw.day) \o JpegExt

\* names in the cache directory that the downloader did not produce
NameNotes     == <<"n", "o", "t", "e", "s", ".", "t", "x", "t">>
NameShort     == <<"2", "0", "2", "4", "0", "2", "2">>
NameFeb30     == <<"2", "0", "2", "4", "0", "2", "3", "0", ".", "j", "p", "e", "g">>
NameMonth13   == <<"2", "0", "2", "4", "1", "3", "0", "1", ".", "j", "p", "e", "g">>
NameSpaceDay  == <<"2", "0", "2", "4", "0", "2", " ", "5", ".", "p", "n", "g">>
NameNewYear   == <<"2", "0", "2", "4", "0", "1", "0", "1", "_", "a", ".", "j", "p", "g">>

OtherNames == {NameNotes, NameShort, NameFeb30, NameMonth13, NameSpaceDay, NameNewYear}

Days == (Day0 - MaxAge)..(Day0 + MaxDays + 1)

DatedNames == {NewsFileName(Time(d, 0)) : d \in Days}

Names == DatedNames \cup OtherNames

Tasks == {"sched", "cmd"}

\* A file holds "absent" (there is no such file), "old" (a complete image
\* that was there at the start), the name of the task whose fetch it holds
\* completely, or "partial" (what a failed write left).

\* _file_exists
FileExists(fs, name) == fs[name] # "absent"

(***************************************************************************)
(* Tasks.  "sched" runs _daily_task, "cmd" runs the handlers of the chat   *)
(* commands.  pc is the suspension point (or the statement) the task is    *)
(* at, stack the statements its callers continue at, wake the time its     *)
(* sleep ends, fired the wake time that started its last cycle, resp and   *)
(* imgStatus the responses to the GETs of its current indirect attempt,    *)
(* removed the files its last clean command removed.                       *)
(***************************************************************************)
\* the values a call returns: None, or a tuple (val, ok)
None == [kind |-> "None", val |-> <<>>, ok |-> FALSE]

IsNone(x) == x.kind = "None"

NoTime == Time(0, 0)

Result(val, ok) == [kind |-> "tuple", val |-> val, ok |-> ok]

\* the JSON bodies of the indirect API: unparsable, or a record with the
\* success code and any image URL, or with an error code and an image URL
ImageUrls == {"absent", "empty", "url"}
Bodies == {[parses |-> FALSE, code |-> 0, imageUrl |-> "absent", msg |-> "none"]}
            \cup [parses : {TRUE}, code : {200}, imageUrl : ImageUrls, msg : {"bad"}]
            \cup [parses : {TRUE}, code : {500}, imageUrl : {"url"}, msg : {"bad"}]

\* no response received (yet) for the GET of an attempt, no body read
NoStatus == -1
NoBody == [parses |-> FALSE, code |-> 0, imageUrl |-> "absent", msg |-> "none"]
NoResponse == [status |-> NoStatus, body |-> NoBody]

\* line 218: the body is read only from a response with status 200
Response(status, body) ==
  [status |-> status, body |-> IF status = 200 THEN body ELSE NoBody]

\* the text of line 257, whatever the exception e in it
ErrorText == <<"error text">>

NewTask == [pc |-> "idle", stack |-> <<>>, path |-> <<>>, attempt |-> 0,
            dlLog |-> <<>>, dlWaits |-> 0, dlRet |-> None, gets |-> 0,
            existed |-> FALSE, cycles |-> 0, ret |-> None,
            tgt |-> 0, sendLog |-> <<>>, paces |-> 0,
            wake |-> NoTime, fired |-> NoTime, exc |-> "none", out |-> <<"none">>,
            resp |-> NoResponse, imgStatus |-> NoStatus, removed |-> {}]

\* the task record without what the last call of _get_image_news or
\* _download_news left in it
Clear(r) == [r EXCEPT !.path = <<>>, !.attempt = 0, !.dlLog = <<>>, !.dlWaits = 0,
                      !.dlRet = None, !.gets = 0, !.existed = FALSE, !.cycles = 0,
                      !.ret = None, !.exc = "none", !.resp = NoResponse,
                      !.imgStatus = NoStatus]

Set(t, r) == task' = [task EXCEPT ![t] = r]

\* a cancel() is pending for the task: its next resumption raises CancelledError
Cancelling(t) == t = "sched" /\ cancelled

\* the task resumes normally at its suspension point
Runs(t, label) == task[t].pc = label /\ ~Cancelling(t)

\* a handler "except BaseException", which catches the cancellation too
CaughtByExceptException_All(kind) == TRUE

\* "except Exception" (lines 251, 277, 309, 325)
CaughtByExceptException(kind) ==kind # "CancelledError"

retries == 3
RetryWait == 1
PacingDelay == 2
Cooldown == 60
RecoverySleep == 300

\* the statement after a call returns, and the sleep it starts when that
\* statement is the cooldown of line 324
ReturnTo(r, nw) ==
  LET lbl == r.stack[Len(r.stack)]
      r1  == [r EXCEPT !.pc = lbl, !.stack = SubSeq(@, 1, Len(@) - 1)]
  IN IF lbl = "d_cool"
     THEN [r1 EXCEPT !.wake = AddSeconds(nw, Cooldown)]
     ELSE r1

(***************************************************************************)
(* _download_news                                                          *)
(***************************************************************************)
\* the call: the first attempt runs up to its GET (lines 193-203)
DownloadNews(r, path, label) ==
  [r EXCEPT !.pc = "dl_get", !.stack = Append(@, label), !.path = path,
            !.attempt = 0, !.dlLog = <<>>, !.dlWaits = 0, !.dlRet = None,
            !.gets = @ + 1, !.cycles = @ + 1, !.resp = NoResponse,
            !.imgStatus = NoStatus]

\* return path, True / return content, False (lines 208, 231, 247, 258)
DownloadReturn(r, res, nw) ==
  ReturnTo([r EXCEPT !.dlRet = res, !.ret = res], nw)

\* giving up one attempt early
IsLastAttempt_Early(attempt) == attempt = retries - 2

\* never recognising the last attempt: the loop runs out and None is returned
IsLastAttempt_Never(attempt) == attempt = retries

\* line 255: the attempt that failed was the last one
IsLastAttempt(attempt) == attempt = retries - 1

\* lines 251-259: an attempt raised the exception with message msg
DownloadExcept(r, msg, nw) ==
  LET r1 == [r EXCEPT !.dlLog = Append(@, "failed"), !.exc = msg, !.wake = NoTime]
  IN IF IsLastAttempt(r.attempt)
     THEN DownloadReturn(r1, Result(ErrorText, FALSE), nw)
     ELSE [r1 EXCEPT !.pc = "dl_wait", !.dlWaits = @ + 1,
                     !.wake = AddSeconds(nw, RetryWait)]

\* with open(path, "wb") as f: f.write(content) (lines 206-207, 229-230,
\* 245-246): open truncates the file, write fills it
WriteOutcomes == {"written", "open_error", "write_error"}

WriteFile(fs, path, t, w) ==
  IF w = "written" THEN [fs EXCEPT ![path] = t]
  ELSE IF w = "write_error" THEN [fs EXCEPT ![path] = "partial"]
  ELSE fs

\* the responses to a GET: an HTTP status, or 0 when the request raised
\* (the timeout of line 194, a connection error).  A request takes at most
\* that timeout; the clock is not advanced for it.
Statuses == {200, 404, 0}

StatusMessage(status) == IF status = 0 THEN "timeout" ELSE "http_status"

\* the attempt has its image bytes (status 200) and writes them
StoreImage(t, r, w, nw) ==
  /\ files' = WriteFile(files, r.path, t, w)
  /\ IF w = "written"
     THEN Set(t, DownloadReturn([r EXCEPT !.dlLog = Append(@, "ok")],
                                Result(r.path, TRUE), nw))
     ELSE Set(t, DownloadExcept(r, w, nw))

\* the file opened for writing before the status of the response is looked
\* at: a response other than 200 leaves it truncated
DlResponse_OpenFirst(t, status, w) ==
  /\ Runs(t, "dl_get")
  /\ config.news_type \in {"vikiboss_api", "direct"}
  /\ now' = now
  /\ IF status = 200
     THEN StoreImage(t, task[t], w, now')
     ELSE /\ Set(t, DownloadExcept(task[t], StatusMessage(status), now'))
          /\ files' = WriteFile(files, task[t].path, t, "write_error")
  /\ UNCHANGED <<config, cancelled, ncmds>>

\* lines 199-210 and 238-249: the response of the GET of the direct and of
\* the proxy mode
DlResponse(t, status, w) ==
  /\ Runs(t, "dl_get")
  /\ config.news_type \in {"vikiboss_api", "direct"}
  /\ now' = now
  /\ IF status = 200
     THEN StoreImage(t, task[t], w, now')
     ELSE /\ Set(t, DownloadExcept(task[t], StatusMessage(status), now'))
          /\ UNCHANGED files
  /\ UNCHANGED <<config, cancelled, ncmds>>

\* the code field of the response not looked at
IndirectStep_AnyCode(status, body) ==
  IF status # 200 THEN StatusMessage(status)
  ELSE IF ~body.parses THEN "malformed"
  ELSE IF body.imageUrl \in {"absent", "empty"} THEN "no_imageUrl" ELSE "get"

\* lines 216-237: what the first response of the indirect mode leads to:
\* "get" for the second GET, or the message of the exception raised
IndirectStep(status, body) ==
  IF status # 200 THEN StatusMessage(status)
  ELSE IF ~body.parses THEN "malformed"
  ELSE IF body.code = 200
       THEN (IF body.imageUrl \in {"absent", "empty"} THEN "no_imageUrl" ELSE "get")
       ELSE body.msg

\* lines 211-237: the response of the first GET of the indirect mode
DlIndirectResponse(t, status, body) ==
  /\ Runs(t, "dl_get")
  /\ config.news_type = "indirect"
  /\ now' = now
  /\ LET step == IndirectStep(status, body)
         r    == [task[t] EXCEPT !.resp = Response(status, body)]
     IN IF step = "get"
        THEN Set(t, [r EXCEPT !.pc = "dl_img", !.gets = @ + 1])
        ELSE Set(t, DownloadExcept(r, step, now'))
  /\ UNCHANGED <<config, files, cancelled, ncmds>>

\* lines 226-233: the response of the GET of the image URL
DlImageResponse(t, status, w) ==
  /\ Runs(t, "dl_img")
  /\ now' = now
  /\ LET r == [task[t] EXCEPT !.imgStatus = status]
     IN IF status = 200
        THEN StoreImage(t, r, w, now')
        ELSE /\ Set(t, DownloadExcept(r, StatusMessage(status), now'))
             /\ UNCHANGED files
  /\ UNCHANGED <<config, cancelled, ncmds>>

\* lines 259, 197, 260: the wait after a failed attempt is over; the next
\* attempt runs up to its GET, or the loop is exhausted and None is returned
DlRetry(t) ==
  /\ Runs(t, "dl_wait")
  /\ now' = Later(now, task[t].wake)
  /\ IF task[t].attempt + 1 < retries
     THEN Set(t, [task[t] EXCEPT !.pc = "dl_get", !.attempt = @ + 1, !.gets = @ + 1,
                                 !.exc = "none", !.wake = NoTime,
                                 !.resp = NoResponse, !.imgStatus = NoStatus])
     ELSE Set(t, DownloadReturn([task[t] EXCEPT !.wake = NoTime], None, now'))
  /\ UNCHANGED <<config, files, cancelled, ncmds>>

(***************************************************************************)
(* _get_image_news                                                         *)
(***************************************************************************)
\* never looking at the cache
ServedFromCache_Never(fs, path) == FALSE

\* line 182: today's image is served from the cache
ServedFromCache(fs, path) == FileExists(fs, path)

\* the call, up to its return or to the GET of the first attempt
GetImageNews(r, nw, fs, label) ==
  LET path == NewsFileName(nw)
      r0   == [Clear(r) EXCEPT !.path = path, !.existed = FileExists(fs, path)]
  IN IF ServedFromCache(fs, path)
     THEN [r0 EXCEPT !.pc = label, !.ret = Result(path, TRUE)]
     ELSE DownloadNews(r0, path, label)

(***************************************************************************)
(* _send_daily_news_to_groups                                              *)
(***************************************************************************)
Groups == <<"g1", "g2">>

\* the call, up to the head of the loop over the targets
SendDailyNewsToGroups(r, label) ==
  [r EXCEPT !.pc = "bc_next", !.stack = Append(@, label), !.tgt = 1,
            !.sendLog = <<>>, !.paces = 0]

\* the handler placed around the loop instead of inside it: the first
\* failure ends the broadcast
BroadcastExcept_Abort(r, kind, nw) == ReturnTo([r EXCEPT !.exc = kind], nw)

\* lines 277-282: the handler of the loop body, which paces and goes on
BroadcastExcept(r, kind, nw) ==
  [r EXCEPT !.pc = "bc_pace_exc", !.exc = kind,
            !.stack = IF @ # <<>> /\ @[Len(@)] = "bc_got"
                      THEN SubSeq(@, 1, Len(@) - 1) ELSE @,
            !.wake = AddSeconds(nw, PacingDelay)]

\* the file the image of a message names is there
ImageExists(fs, image) == image \in Names /\ FileExists(fs, image)

\* lines 266-269: the next target, or the end of the loop
BcNext(t) ==
  /\ Runs(t, "bc_next")
  /\ IF task[t].tgt > Len(config.groups)
     THEN Set(t, ReturnTo(task[t], now))
     ELSE Set(t, GetImageNews(task[t], now, files, "bc_got"))
  /\ UNCHANGED <<config, now, files, cancelled, ncmds>>

\* lines 269-274: the image is unpacked, the message built and handed to
\* send_message
BcGot(t) ==
  /\ Runs(t, "bc_got")
  /\ LET r  == task[t]
         r0 == Clear(r)
     IN IF IsNone(r.ret)
        THEN Set(t, BroadcastExcept(r0, "TypeError", now))
        ELSE Set(t, [r0 EXCEPT !.pc = "bc_send",
                       !.sendLog = Append(@, [target |-> config.groups[r.tgt],
                                              image  |-> r.ret.val,
                                              today  |-> NewsFileName(now),
                                              exists |-> ImageExists(files, r.ret.val),
                                              sent   |-> "pending"])])
  /\ UNCHANGED <<config, now, files, cancelled, ncmds>>

\* lines 274-276 and 277-282: send_message returned or raised
BcSent(t, sent) ==
  /\ Runs(t, "bc_send")
  /\ IF sent
     THEN Set(t, [task[t] EXCEPT !.pc = "bc_pace",
                                 !.sendLog[Len(task[t].sendLog)].sent = "ok",
                                 !.wake = AddSeconds(now, PacingDelay)])
     ELSE Set(t, BroadcastExcept([task[t] EXCEPT
                                    !.sendLog[Len(task[t].sendLog)].sent = "failed"],
                                 "SendError", now))
  /\ UNCHANGED <<config, now, files, cancelled, ncmds>>

\* lines 276, 282: the pacing delay is over
BcPaced(t) ==
  /\ task[t].pc \in {"bc_pace", "bc_pace_exc"}
  /\ ~Cancelling(t)
  /\ now' = Later(now, task[t].wake)
  /\ Set(t, [task[t] EXCEPT !.pc = "bc_next", !.tgt = @ + 1, !.paces = @ + 1,
                             !.exc = "none", !.wake = NoTime])
  /\ UNCHANGED <<config, files, cancelled, ncmds>>

(***************************************************************************)
(* _delete_expired_news_files                                              *)
(***************************************************************************)
\* the check that lets 0 through
BadSaveDays_Negative(save_days) == save_days < 0

\* line 301
BadSaveDays(save_days) == save_days <= 0

\* line 305: the date strptime reads off the first 8 characters of each file
\* name, NoDate where it raises
FileDate == [n \in Names |-> StrpDate(SubSeq(n, 1, Min(8, Len(n))))]

\* the comparison with > in place of >=
IsExpired_Strict(name, today, save_days) ==
  LET file_date == FileDate[name]
  IN file_date # NoDate /\ today - file_date > save_days

\* lines 305-306: the file is old enough to be deleted; a name strptime
\* rejects raises, and the loop goes on
IsExpired(name, today, save_days) ==
  LET file_date == FileDate[name]
  IN file_date # NoDate /\ today - file_date >= save_days

\* the handler placed around the loop instead of inside it: the first
\* deletion that raises ends the sweep, here before any other deletion
DeleteExpiredNewsFiles_Abort(fs, today, save_days, undeletable) ==
  IF \E n \in undeletable : FileExists(fs, n) /\ IsExpired(n, today, save_days)
  THEN fs
  ELSE [n \in Names |->
          IF FileExists(fs, n) /\ IsExpired(n, today, save_days) THEN "absent" ELSE fs[n]]

\* lines 303-310: the sweep; os.remove raises for the files in undeletable
DeleteExpiredNewsFiles(fs, today, save_days, undeletable) ==
  [n \in Names |->
     IF FileExists(fs, n) /\ IsExpired(n, today, save_days) /\ n \notin undeletable
     THEN "absent" ELSE fs[n]]

\* the sets of files whose deletion may fail: none, or any one file
Undeletables == {{}} \cup {{n} : n \in Names}

(***************************************************************************)
(* _daily_task                                                             *)
(***************************************************************************)
\* the task ends with the exception kind
Stop(r, kind) == [r EXCEPT !.pc = "stopped", !.stack = <<>>, !.exc = kind]

\* the loop without its handler: the exception ends the task
DailyExcept_Uncaught(r, kind, nw) == Stop(r, kind)

\* lines 325-328: the handler of the loop, which sleeps and goes on
DailyExcept(r, kind, nw) ==
  [r EXCEPT !.pc = "d_recover", !.stack = <<>>, !.exc = kind,
            !.wake = AddSeconds(nw, RecoverySleep)]

\* the exception kind is raised where the task is suspended: the innermost
\* enclosing handler that catches it takes over, or the task ends
Propagate(r, kind, nw) ==
  IF ~CaughtByExceptException(kind) THEN Stop(r, kind)
  ELSE IF r.pc \in {"dl_get", "dl_img"} THEN DownloadExcept(r, kind, nw)
  ELSE IF r.pc \in {"bc_send", "bc_pace"}
          \/ (r.pc = "dl_wait" /\ r.stack[Len(r.stack)] = "bc_got")
       THEN BroadcastExcept(r, kind, nw)
  ELSE IF r.pc = "d_recover" THEN Stop(r, kind)
  ELSE DailyExcept(r, kind, nw)

\* lines 318-320: the sleep time is computed and the sleep begins
DailyCalc ==
  /\ Runs("sched", "d_top")
  /\ LET r == task["sched"]
         c == CalculateSleepTime(now, config.push_time)
     IN IF c.raised
        THEN Set("sched", DailyExcept(r, "ValueError: push_time", now))
        ELSE Set("sched", [r EXCEPT !.pc = "d_sleep", !.exc = "none",
                                    !.wake = AddSeconds(now, c.value)])
  /\ UNCHANGED <<config, now, files, cancelled, ncmds>>

\* the refresh going through the read path, which looks at the cache first
DailyWake_Cached ==
  /\ Runs("sched", "d_sleep")
  /\ task["sched"].wake.day <= Day0 + MaxDays
  /\ now' = Later(now, task["sched"].wake)
  /\ Set("sched", GetImageNews([Clear(task["sched"]) EXCEPT !.wake = NoTime,
                                           !.fired = task["sched"].wake],
                               now', files, "d_updated"))
  /\ UNCHANGED <<config, files, cancelled, ncmds>>

\* lines 320-321 and 147-150: the sleep is over; the forced refresh starts
DailyWake ==
  /\ Runs("sched", "d_sleep")
  /\ task["sched"].wake.day <= Day0 + MaxDays
  /\ now' = Later(now, task["sched"].wake)
  /\ Set("sched", DownloadNews([Clear(task["sched"]) EXCEPT !.wake = NoTime,
                                           !.fired = task["sched"].wake],
                               NewsFileName(now'), "d_updated"))
  /\ UNCHANGED <<config, files, cancelled, ncmds>>

\* the sweep taking the day after the one of the refresh for today
DailyPrune_Tomorrow(undeletable) ==
  /\ Runs("sched", "d_updated")
  /\ LET r == Clear(task["sched"])
     IN IF BadSaveDays(config.save_days)
        THEN /\ Set("sched", DailyExcept(r, "ValueError: save_days", now))
             /\ UNCHANGED files
        ELSE /\ files' = DeleteExpiredNewsFiles(files, now.day + 1, config.save_days,
                                                undeletable)
             /\ Set("sched", SendDailyNewsToGroups(r, "d_cool"))
  /\ UNCHANGED <<config, now, cancelled, ncmds>>

\* lines 322-323: the refresh returned; the sweep runs, the broadcast starts
DailyPrune(undeletable) ==
  /\ Runs("sched", "d_updated")
  /\ LET r == Clear(task["sched"])
     IN IF BadSaveDays(config.save_days)
        THEN /\ Set("sched", DailyExcept(r, "ValueError: save_days", now))
             /\ UNCHANGED files
        ELSE /\ files' = DeleteExpiredNewsFiles(files, now.day, config.save_days,
                                                undeletable)
             /\ Set("sched", SendDailyNewsToGroups(r, "d_cool"))
  /\ UNCHANGED <<config, now, cancelled, ncmds>>

\* line 324: the cooldown is over
DailyCooled ==
  /\ Runs("sched", "d_cool")
  /\ now' = Later(now, task["sched"].wake)
  /\ Set("sched", [task["sched"] EXCEPT !.pc = "d_top", !.sendLog = <<>>, !.paces = 0,
                                        !.tgt = 0, !.exc = "none", !.wake = NoTime])
  /\ UNCHANGED <<config, files, cancelled, ncmds>>

\* line 328: the recovery sleep is over
DailyRecovered ==
  /\ Runs("sched", "d_recover")
  /\ task["sched"].wake.day <= Day0 + MaxDays
  /\ now' = Later(now, task["sched"].wake)
  /\ Set("sched", [task["sched"] EXCEPT !.pc = "d_top", !.sendLog = <<>>, !.paces = 0,
                                        !.tgt = 0, !.exc = "none", !.wake = NoTime])
  /\ UNCHANGED <<config, files, cancelled, ncmds>>

\* terminate (lines 141-145)
Terminate ==
  /\ ~cancelled
  /\ task["sched"].pc # "stopped"
  /\ cancelled' = TRUE
  /\ UNCHANGED <<config, now, files, task, ncmds>>

\* the cancelled task is resumed with CancelledError at its suspension point
Cancelled ==
  /\ Cancelling("sched")
  /\ task["sched"].pc # "stopped"
  /\ Set("sched", Propagate(task["sched"], "CancelledError", now))
  /\ UNCHANGED <<config, now, files, cancelled, ncmds>>

(***************************************************************************)
(* The chat commands.                                                      *)
(***************************************************************************)
Accepts == task["cmd"].pc = "idle" /\ ncmds < MaxCmds

Fresh(r) == [Clear(r) EXCEPT !.out = <<"none">>, !.sendLog = <<>>, !.paces = 0, !.tgt = 0,
                             !.removed = {}]

\* daily_60s_news and push_image_news (lines 76-82, 123-128)
CmdNews ==
  /\ Accepts
  /\ ncmds' = ncmds + 1
  /\ Set("cmd", GetImageNews(Fresh(task["cmd"]), now, files, "c_yield"))
  /\ UNCHANGED <<config, now, files, cancelled>>

\* update_news_files (lines 132-139, 147-150)
CmdUpdateNews ==
  /\ Accepts
  /\ ncmds' = ncmds + 1
  /\ Set("cmd", DownloadNews(Fresh(task["cmd"]), NewsFileName(now), "c_updated"))
  /\ UNCHANGED <<config, now, files, cancelled>>

\* push_news (lines 115-120)
CmdPush ==
  /\ Accepts
  /\ ncmds' = ncmds + 1
  /\ Set("cmd", SendDailyNewsToGroups(Fresh(task["cmd"]), "c_pushed"))
  /\ UNCHANGED <<config, now, files, cancelled>>

\* clean_news (lines 104-111)
CmdClean(undeletable) ==
  /\ Accepts
  /\ ncmds' = ncmds + 1
  /\ IF BadSaveDays(config.save_days)
     THEN /\ Set("cmd", [Fresh(task["cmd"]) EXCEPT !.exc = "ValueError: save_days",
                                                  !.out = <<"raised">>])
          /\ UNCHANGED files
     ELSE /\ files' = DeleteExpiredNewsFiles(files, now.day, config.save_days,
                                             undeletable)
          /\ Set("cmd", [Fresh(task["cmd"]) EXCEPT
                           !.out = <<"cleaned">>,
                           !.removed = {n \in Names : FileExists(files, n)
                                                       /\ ~FileExists(files', n)}])
  /\ UNCHANGED <<config, now, cancelled>>

\* check_status (lines 87-99)
CmdStatus ==
  /\ Accepts
  /\ ncmds' = ncmds + 1
  /\ LET c == CalculateSleepTime(now, config.push_time)
     IN IF c.raised
        THEN Set("cmd", [Fresh(task["cmd"]) EXCEPT !.exc = "ValueError: push_time",
                                                   !.out = <<"raised">>])
        ELSE Set("cmd", [Fresh(task["cmd"]) EXCEPT !.out = <<"status", c.value>>])
  /\ UNCHANGED <<config, now, files, cancelled>>

\* the rest of a handler after its call returned (lines 82, 120, 128, 137)
CmdFinish ==
  /\ task["cmd"].pc \in {"c_yield", "c_updated", "c_pushed"}
  /\ LET r == task["cmd"]
     IN IF r.pc = "c_yield"
        THEN IF IsNone(r.ret)
             THEN Set("cmd", [r EXCEPT !.pc = "idle", !.exc = "TypeError",
                                       !.out = <<"raised">>])
             ELSE Set("cmd", [r EXCEPT !.pc = "idle", !.out = <<"image", r.ret.val>>])
        ELSE Set("cmd", [r EXCEPT !.pc = "idle", !.out = <<"done">>])
  /\ UNCHANGED <<config, now, files, cancelled, ncmds>>

(***************************************************************************)
(* The plugin: __init__ (lines 39-59) creates the scheduler task.          *)
(***************************************************************************)
\* the retention days configured: none (a configuration error) or one
SaveDays == {0, 1}

\* 07:59:59, one second before the push time 08:00
StartSecond == 28799

\* the cache directory at the start: yesterday's image, a file that is not
\* an image, and today's image or not
InitFiles(today, present) ==
  [n \in Names |-> IF n \in {NewsFileName(Time(Day0 - 1, 0)), NameNotes} THEN "old"
                   ELSE IF n = today /\ present THEN "old"
                   ELSE "absent"]

InitTasks ==
  /\ task = [t \in Tasks |-> IF t = "sched" THEN [NewTask EXCEPT !.pc = "d_top"]
                             ELSE NewTask]
  /\ cancelled = FALSE
  /\ ncmds = 0

\* the scheduler and a command side by side, the day of the last push followed
Init ==
  /\ config \in {[news_type |-> "direct", push_time |-> Str0800,
                  save_days |-> 1, groups |-> <<"g1">>],
                 [news_type |-> "indirect", push_time |-> Str0800,
                  save_days |-> 0, groups |-> <<"g1">>]}
  /\ now = Time(Day0 + MaxDays, StartSecond)
  /\ \E present \in BOOLEAN : files = InitFiles(NewsFileName(now), present)
  /\ InitTasks

Download(t) ==
  \/ \E status \in Statuses, w \in WriteOutcomes : DlResponse(t, status, w)
  \/ \E status \in Statuses, body \in Bodies : DlIndirectResponse(t, status, body)
  \/ \E status \in Statuses, w \in WriteOutcomes : DlImageResponse(t, status, w)
  \/ DlRetry(t)

Broadcast(t) ==
  \/ BcNext(t)
  \/ BcGot(t)
  \/ \E sent \in BOOLEAN : BcSent(t, sent)
  \/ BcPaced(t)

Daily ==
  \/ DailyCalc
  \/ DailyWake
  \/ \E u \in Undeletables : DailyPrune(u)
  \/ DailyCooled
  \/ DailyRecovered
  \/ Terminate
  \/ Cancelled

Commands ==
  \/ CmdNews
  \/ CmdUpdateNews
  \/ CmdPush
  \/ \E u \in Undeletables : CmdClean(u)
  \/ CmdStatus
  \/ CmdFinish

Next ==
  \/ \E t \in Tasks : Download(t)
  \/ \E t \in Tasks : Broadcast(t)
  \/ Daily
  \/ Commands

Spec == Init /\ [][Next]_vars

(***************************************************************************)
(* The scheduler alone: no command arrives.                                *)
(***************************************************************************)
InitSched ==
  /\ config \in [news_type : NewsTypes, push_time : {Str0800} \cup InvalidPushTimes,
                 save_days : SaveDays, groups : {Groups}]
  /\ now = Time(Day0, StartSecond)
  /\ \E present \in BOOLEAN : files = InitFiles(NewsFileName(now), present)
  /\ InitTasks

NextSched ==
  \/ Download("sched")
  \/ Broadcast("sched")
  \/ Daily

SpecSched == InitSched /\ [][NextSched]_vars

(***************************************************************************)
(* The commands alone: the scheduler sleeps until the push time, which     *)
(* does not come while the commands run.                                   *)
(***************************************************************************)
InitCmd ==
  /\ config \in [news_type : NewsTypes, push_time : {Str0800},
                 save_days : SaveDays, groups : {Groups}]
  /\ now = Time(Day0, StartSecond)
  /\ \E present \in BOOLEAN : files = InitFiles(NewsFileName(now), present)
  /\ InitTasks

NextCmd ==
  \/ Download("cmd")
  \/ Broadcast("cmd")
  \/ Commands
  \/ DailyCalc

SpecCmd == InitCmd /\ [][NextCmd]_vars

(***************************************************************************)
(* _calculate_sleep_time on its own: the status command, for the push      *)
(* times of the day and the seconds around them.                           *)
(***************************************************************************)
\* seconds of the day around second s, and the ends of the day
Around(s) == {x \in {s - 1, s, s + 1, 0, 1, SecondsPerDay - 1} : x >= 0 /\ x < SecondsPerDay}

InitCalc ==
  /\ \E hour \in 0..23, minute \in PushMinutes :
       /\ config = [news_type |-> "direct", push_time |-> PushTimeText(hour, minute),
                    save_days |-> 1, groups |-> Groups]
       /\ now \in {Time(Day0, s) : s \in Around(hour * 3600 + minute * 60)}
  /\ files = InitFiles(NewsFileName(now), FALSE)
  /\ InitTasks

NextCalc == CmdStatus

SpecCalc == InitCalc /\ [][NextCalc]_vars

(***************************************************************************)
(* _delete_expired_news_files on its own: the clean command on any cache   *)
(* directory, no deletion failing.                                         *)
(***************************************************************************)
MaxSaveDays == 3

InitPrune ==
  /\ config \in [news_type : {"direct"}, push_time : {Str0800},
                 save_days : 1..MaxSaveDays, groups : {Groups}]
  /\ now = Time(Day0, StartSecond)
  /\ files \in [Names -> {"absent", "old"}]
  /\ InitTasks

NextPrune == CmdClean({})

SpecPrune == InitPrune /\ [][NextPrune]_vars

(***************************************************************************)
(* _delete_expired_news_files with any retention, positive or not, and     *)
(* with a deletion that may fail: the clean command on a cache directory   *)
(* that holds the files that are no daily images and any of the images.    *)
(***************************************************************************)
InitClean ==
  /\ config \in [news_type : {"direct"}, push_time : {Str0800},
                 save_days : (0 - MaxSaveDays)..MaxSaveDays, groups : {Groups}]
  /\ now = Time(Day0, StartSecond)
  /\ \E images \in SUBSET DatedNames :
       files = [n \in Names |-> IF n \in OtherNames \cup images THEN "old"
                                ELSE "absent"]
  /\ InitTasks

NextClean == \E u \in Undeletables : CmdClean(u)

SpecClean == InitClean /\ [][NextClean]_vars

(***************************************************************************)
(* The scheduler alone and never cancelled, under fairness: the event loop *)
(* resumes the task when its sleep is over, and every GET and every send   *)
(* returns or raises within its timeout.                                   *)
(***************************************************************************)
InitFair ==
  /\ config \in [news_type : NewsTypes, push_time : {Str0800},
                 save_days : SaveDays, groups : {Groups}]
  /\ now = Time(Day0, StartSecond)
  /\ \E present \in BOOLEAN : files = InitFiles(NewsFileName(now), present)
  /\ InitTasks

NextFair ==
  \/ Download("sched")
  \/ Broadcast("sched")
  \/ DailyCalc
  \/ DailyWake
  \/ \E u \in Undeletables : DailyPrune(u)
  \/ DailyCooled
  \/ DailyRecovered

\* a GET or a send in flight ends, a sleep that is over is left, and the
\* statements between two awaits run
Fairness ==
  /\ WF_vars(Download("sched"))
  /\ WF_vars(Broadcast("sched"))
  /\ WF_vars(DailyCalc)
  /\ WF_vars(DailyWake)
  /\ WF_vars(\E u \in Undeletables : DailyPrune(u))
  /\ WF_vars(DailyCooled)
  /\ WF_vars(DailyRecovered)

SpecFair == InitFair /\ [][NextFair]_vars /\ Fairness

(***************************************************************************)
(* Properties.                                                             *)
(***************************************************************************)
InDownload(r) == r.pc \in {"dl_get", "dl_img", "dl_wait"}

\* a call of _download_news of the task has returned and its caller has not
\* yet gone on
Returned(r) == r.cycles = 1 /\ ~InDownload(r)

Failures(log) == Cardinality({i \in 1..Len(log) : log[i] = "failed"})

\* C1: one call of _download_news issues exactly min(N + 1, 3) attempts when
\* its first N attempts fail: no attempt follows a success, no fourth attempt
\* is issued, a wait of 1 unit follows each failed attempt but the third, and
\* no wait follows a success.
C1_AttemptsAreMinOfFailuresPlusOneAndThree ==
  \A t \in Tasks :
    LET r      == task[t]
        issued == Len(r.dlLog) + (IF r.pc \in {"dl_get", "dl_img"} THEN 1 ELSE 0)
    IN /\ issued <= 3
       /\ \A i \in 1..(issued - 1) : r.dlLog[i] = "failed"
       /\ InDownload(r) =>
            /\ r.dlWaits = Len(r.dlLog)
            /\ r.pc = "dl_wait" => TotalSeconds(r.wake, now) = 1
       /\ Returned(r) =>
            /\ Len(r.dlLog) = Min(Failures(r.dlLog) + 1, 3)
            /\ r.dlWaits = Len(r.dlLog) - 1

\* a download that returned at its second attempt, after one failure and one wait
C1_Witness ==
  \E t \in Tasks : /\ Returned(task[t])
                   /\ task[t].dlLog = <<"failed", "ok">>
                   /\ task[t].dlWaits = 1

\* C2: every call of _download_news returns the tuple (path, True) or the
\* tuple (error text, False), never None; it returns (error text, False)
\* exactly when all 3 attempts failed, whatever made them fail.
C2_ReturnsOkOrDegraded ==
  \A t \in Tasks :
    LET r == task[t]
    IN Returned(r) =>
         /\ ~IsNone(r.dlRet)
         /\ r.dlRet.ok => r.dlRet.val = r.path /\ r.dlLog[Len(r.dlLog)] = "ok"
         /\ ~r.dlRet.ok => r.dlRet.val = ErrorText
         /\ ~r.dlRet.ok <=> (Len(r.dlLog) = 3 /\ Failures(r.dlLog) = 3)
         /\ r.pc # "stopped"

\* a download that returned the error text after a third attempt whose write failed
C2_Witness ==
  \E t \in Tasks : /\ Returned(task[t])
                   /\ ~task[t].dlRet.ok
                   /\ task[t].exc = "write_error"
                   /\ Len(task[t].dlLog) = 3

\* the call of _get_image_news of the task has returned and its caller has
\* not yet gone on
GotImage(r) == r.pc \in {"c_yield", "bc_got"}

\* C3: _get_image_news issues no GET and returns (path, True) when today's
\* file exists at the call; otherwise it runs exactly one download, of at
\* most 3 attempts, and returns what that download returned.
C3_CacheHitMakesNoNetworkCall ==
  \A t \in Tasks :
    LET r == task[t]
    IN /\ (InDownload(r) /\ r.stack[Len(r.stack)] \in {"c_yield", "bc_got"}) => ~r.existed
       /\ GotImage(r) =>
            IF r.existed
            THEN r.gets = 0 /\ r.cycles = 0 /\ r.ret = Result(r.path, TRUE)
            ELSE r.gets >= 1 /\ r.cycles = 1 /\ Len(r.dlLog) <= 3 /\ r.ret = r.dlRet

\* the news command answered from the cache
C3_Witness ==
  /\ task["cmd"].pc = "c_yield"
  /\ task["cmd"].existed
  /\ task["cmd"].gets = 0
  /\ files[task["cmd"].path] = "old"

\* the hour and minute of the configured push time
PushHourMinute ==
  CHOOSE hm \in (0..23) \X (0..59) : PushTimeText(hm[1], hm[2]) = config.push_time

\* C4: for a valid push time and any current time, _calculate_sleep_time
\* returns d with 0 < d <= 86400 such that now + d is the push time of today
\* when that is strictly after now, and of tomorrow otherwise.
C4_SleepTimeReachesNextPush ==
  ncmds = 1 =>
    LET out  == task["cmd"].out
        push == PushHourMinute[1] * 3600 + PushHourMinute[2] * 60
    IN /\ out[1] = "status"
       /\ out[2] > 0
       /\ out[2] <= 86400
       /\ IF push > now.sec THEN now.sec + out[2] = push
                            ELSE now.sec + out[2] = 86400 + push

\* the status asked for at the very second of the push: a whole day remains
C4_Witness ==
  /\ ncmds = 1
  /\ now.sec = PushHourMinute[1] * 3600 + PushHourMinute[2] * 60
  /\ task["cmd"].out = <<"status", 86400>>

\* the day a file name is dated, told without strptime: the day whose image
\* has that name, or the day read off the other names by hand
DateOfName(n) ==
  IF n \in DatedNames THEN CHOOSE d \in Days : NewsFileName(Time(d, 0)) = n
  ELSE IF n = NameShort THEN 738918
  ELSE IF n = NameSpaceDay THEN 738921
  ELSE IF n = NameNewYear THEN 738886
  ELSE NoDate

\* C5: with save_days > 0 and no deletion failing, the sweep deletes a file
\* exactly when its name is dated at least save_days days before today; files
\* dated later, future ones included, and files without a date stay.
C5_PruneDeletesExactlyTheExpired ==
  [][ncmds' = ncmds + 1 =>
       \A n \in Names :
         /\ files'[n] \in {files[n], "absent"}
         /\ (files[n] # "absent" /\ files'[n] = "absent")
              <=> /\ files[n] # "absent"
                  /\ DateOfName(n) # NoDate
                  /\ now.day - DateOfName(n) >= config.save_days]_vars

\* a sweep with save_days = 2 that deleted the image of two days ago and
\* kept yesterday's, tomorrow's and the file that is not an image
C5_Witness ==
  /\ ncmds = 1
  /\ config.save_days = 2
  /\ task["cmd"].out = <<"cleaned">>
  /\ files[NewsFileName(Time(now.day - 2, 0))] = "absent"
  /\ files[NewsFileName(Time(now.day - 1, 0))] = "old"
  /\ files[NewsFileName(Time(now.day + 1, 0))] = "old"
  /\ files[NameNotes] = "old"
  /\ files[NameFeb30] = "old"
  /\ files[NameNewYear] = "absent"

\* the scheduler left its recovery sleep in this step
LeavesRecovery == task["sched"].pc = "d_recover" /\ task'["sched"].pc # "d_recover"

\* the scheduler started its main sleep in this step
StartsSleep == task["sched"].pc = "d_top" /\ task'["sched"].pc = "d_sleep"

\* C6: no failure inside a cycle ends the scheduler loop: the loop stops only
\* by cancellation; an error is followed by the recovery sleep of 300 units,
\* after which the loop is back at its top, and the wake time it then
\* computes is the next push time after the current time.
C6_LoopSurvivesCycleFailures ==
  /\ [](task["sched"].pc = "stopped" =>
          cancelled /\ task["sched"].exc = "CancelledError")
  /\ [][/\ task'["sched"].pc = "d_recover" /\ task["sched"].pc # "d_recover" =>
            task'["sched"].wake = AddSeconds(now', 300)
        /\ LeavesRecovery =>
             \/ task'["sched"].pc = "d_top" /\ TimeLE(task["sched"].wake, now')
             \/ task'["sched"].pc = "stopped" /\ cancelled
        /\ StartsSleep =>
             /\ task'["sched"].wake.sec = 28800
             /\ ~TimeLE(task'["sched"].wake, now)
             /\ TotalSeconds(task'["sched"].wake, now) <= 86400]_vars

\* the scheduler asleep again after the sweep of a cycle raised and the
\* recovery sleep went by
C6_Witness ==
  /\ task["sched"].pc = "d_sleep"
  /\ config.save_days = 0
  /\ now.sec = 28800 + 300
  /\ task["sched"].wake = Time(now.day + 1, 28800)
  /\ ~cancelled

\* the targets of the sends of a log, in the order of the sends
TargetsOf(log) == [i \in 1..Len(log) |-> log[i].target]

InBroadcast(r) == r.stack # <<>> /\ \E i \in 1..Len(r.stack) : r.stack[i] \in {"c_pushed", "d_cool"}

\* C7: one broadcast attempts the send exactly once for every configured
\* target, in the configured order, whatever happened to the earlier targets,
\* and a pacing delay of 2 units follows every target, sent or failed.
C7_EveryTargetIsSentToAndPaced ==
  \A t \in Tasks :
    LET r == task[t]
    IN /\ InBroadcast(r) =>
            /\ r.tgt \in 1..(Len(config.groups) + 1)
            /\ TargetsOf(r.sendLog) = SubSeq(config.groups, 1, Len(r.sendLog))
            /\ r.pc \in {"bc_next", "dl_get", "dl_img", "dl_wait", "bc_got"} =>
                 Len(r.sendLog) = r.tgt - 1 /\ r.paces = r.tgt - 1
            /\ r.pc \in {"bc_send", "bc_pace", "bc_pace_exc"} =>
                 Len(r.sendLog) = r.tgt /\ r.paces = r.tgt - 1
            /\ r.pc \in {"bc_pace", "bc_pace_exc"} => TotalSeconds(r.wake, now) = 2
       /\ r.pc \in {"c_pushed", "d_cool"} =>
            /\ TargetsOf(r.sendLog) = config.groups
            /\ r.paces = Len(config.groups)

\* a broadcast that ended after the send to the first target failed and the
\* send to the second one succeeded
C7_Witness ==
  /\ task["cmd"].pc = "c_pushed"
  /\ Len(task["cmd"].sendLog) = 2
  /\ task["cmd"].sendLog[1].sent = "failed"
  /\ task["cmd"].sendLog[2].sent = "ok"
  /\ task["cmd"].paces = 2

\* C8: the error for save_days <= 0 is never raised inside the scheduler
\* loop: a scheduled cycle with save_days <= 0 goes from the sweep on to the
\* broadcast.
C8_NoConfigurationErrorInLoop ==
  /\ task["sched"].exc # "ValueError: save_days"
  /\ (task["sched"].pc = "d_recover" /\ BadSaveDays(config.save_days))
       => task["sched"].exc = "ValueError: push_time"

\* C9: every message the broadcaster hands to the send primitive carries the
\* path of today's cache file, and that file exists at that moment.
C9_SendsOnlyTodaysCachedFile ==
  \A t \in Tasks :
    \A i \in 1..Len(task[t].sendLog) :
      /\ task[t].sendLog[i].image = task[t].sendLog[i].today
      /\ task[t].sendLog[i].exists

\* C10: whatever the interleaving of an on-demand download and a refresh of
\* the same file and whatever write fails, the file another task observes is
\* absent, or holds the complete image it held before, or the complete image
\* of one successful fetch: a file the on-demand read path reports as found
\* is never a partial or mixed one.
C10_NoTornFileIsServed ==
  \A t \in Tasks :
    (GotImage(task[t]) /\ ~IsNone(task[t].ret) /\ task[t].ret.ok)
      => files[task[t].ret.val] \in {"old"} \cup Tasks

\* C11: once terminate has cancelled the scheduler task, the only step the
\* task takes is to stop with CancelledError where it is suspended, be it
\* the main sleep, a GET, the wait between attempts, a send, a pacing delay,
\* the cooldown or the recovery sleep: no handler takes the cancellation, no
\* GET is issued, no file is written or deleted and no send is made after it.
C11_CancellationStopsTheLoop ==
  [][cancelled =>
          /\ files' = files
          /\ task'["sched"] # task["sched"] =>
               /\ task'["sched"].pc = "stopped"
               /\ task'["sched"].exc = "CancelledError"
               /\ task'["sched"].gets = task["sched"].gets
               /\ task'["sched"].cycles = task["sched"].cycles
               /\ task'["sched"].sendLog = task["sched"].sendLog
               /\ task'["sched"].paces = task["sched"].paces]_vars

\* the task stopped by a cancellation that came during the pacing delay of
\* the handler of a failed send: the second target is never sent to
C11_Witness ==
  /\ cancelled
  /\ task["sched"].pc = "stopped"
  /\ task["sched"].exc = "CancelledError"
  /\ Len(task["sched"].sendLog) = 1
  /\ task["sched"].sendLog[1].sent = "failed"
  /\ task["sched"].wake = AddSeconds(now, PacingDelay)
  /\ Len(config.groups) = 2

\* the push instant of day d, for the push time 08:00 of the configurations
PushInstant(d) == Time(d, 8 * 3600)

\* the cycle of the push instant of day d has run to its cooldown, a send
\* attempted for every configured target
BroadcastDone(d) ==
  /\ task["sched"].pc = "d_cool"
  /\ now.day = d
  /\ TimeLE(PushInstant(d), now)
  /\ TargetsOf(task["sched"].sendLog) = config.groups
  /\ \A i \in 1..Len(task["sched"].sendLog) :
       task["sched"].sendLog[i].sent \in {"ok", "failed"}

\* the day of the first push instant strictly after the current time
NextPushDay == IF now.sec < PushInstant(now.day).sec THEN now.day ELSE now.day + 1

\* the scheduler is at the top of its loop, its next push instant on day d
AwaitsPush(d) == task["sched"].pc = "d_top" /\ NextPushDay = d

\* C12: never cancelled, with save_days > 0 and every GET and send returning
\* or raising in bounded time, the scheduler at the top of its loop runs the
\* cycle of the next push instant, which attempts a send to every configured
\* target whatever failed in the refresh, the sweep or the sends, and is
\* then back at the top of the loop before the push instant of the day
\* after: no push instant is skipped.
C12_EveryPushInstantIsBroadcast ==
  \A d \in Day0..(Day0 + MaxDays) :
    /\ (config.save_days > 0 /\ AwaitsPush(d)) ~> BroadcastDone(d)
    /\ (config.save_days > 0 /\ BroadcastDone(d)) ~> AwaitsPush(d + 1)

\* the cycle of the last day at its cooldown, after a refresh and a download
\* of the broadcast that both failed and a failed send to the first target
C12_Witness ==
  /\ config.save_days > 0
  /\ BroadcastDone(Day0 + MaxDays)
  /\ task["sched"].sendLog[1].sent = "failed"
  /\ task["sched"].sendLog[1].image = ErrorText
  /\ task["sched"].sendLog[2].sent = "ok"

\* the scheduler is in the refresh of a cycle
InRefresh(r) == InDownload(r) /\ r.stack = <<"d_updated">>

\* the scheduler is in the broadcast of a cycle
InCycleBroadcast(r) == r.stack # <<>> /\ r.stack[1] = "d_cool"

\* the step deletes a file
Deletes == \E n \in Names : files[n] # "absent" /\ files'[n] = "absent"

\* C13: a scheduled cycle starts with the refresh, which calls the
\* downloader for today's file whether or not that file exists; the sweep
\* deletes only once the refresh has returned; the broadcast starts only
\* once the sweep has finished, and no refresh and no deletion follows it
\* within the cycle.
C13_RefreshThenPruneThenBroadcast ==
  [][LET r == task["sched"]
         q == task'["sched"]
     IN /\ (r.pc = "d_sleep" /\ q.pc \notin {"d_sleep", "stopped"}) =>
             /\ InRefresh(q)
             /\ q.pc = "dl_get" /\ q.gets = 1 /\ q.attempt = 0
             /\ q.path = NewsFileName(now')
        /\ (InRefresh(q) /\ ~InRefresh(r)) => r.pc = "d_sleep"
        /\ Deletes => r.pc = "d_updated" /\ Returned(r) /\ ~IsNone(r.dlRet)
        /\ (InCycleBroadcast(q) /\ ~InCycleBroadcast(r)) =>
             /\ r.pc = "d_updated" /\ Returned(r)
             /\ ~BadSaveDays(config.save_days)
             /\ \E u \in Undeletables :
                  \A n \in Names \ u :
                    IsExpired(n, now.day, config.save_days) => files'[n] = "absent"
        /\ InCycleBroadcast(r) => ~InRefresh(q) /\ ~Deletes]_vars

\* a cycle in its broadcast, today's file written by the refresh and
\* yesterday's file deleted by the sweep
C13_Witness ==
  /\ task["sched"].pc = "bc_next"
  /\ task["sched"].stack = <<"d_cool">>
  /\ task["sched"].tgt = 1
  /\ files[NewsFileName(now)] = "sched"
  /\ files[NewsFileName(Time(now.day - 1, 0))] = "absent"
  /\ now.day = Day0

\* the main sleep ends and a cycle starts in this step
Fires == task["sched"].pc = "d_sleep" /\ InRefresh(task'["sched"])

\* C14: the clock never going back, a cycle starts no earlier than the push
\* instant that triggers it, and the wake time computed after a cycle, be
\* it after the cooldown or after the recovery sleep, is a push instant
\* strictly later than the one that triggered that cycle: no push instant
\* starts two cycles.
C14_NoPushInstantFiresTwice ==
  [][LET r == task["sched"]
         q == task'["sched"]
     IN /\ TimeLE(now, now')
        /\ Fires =>
             /\ q.fired = r.wake
             /\ TimeLE(r.wake, now')
             /\ ~TimeLE(r.wake, r.fired)
        /\ (StartsSleep /\ r.fired # NoTime) =>
             /\ q.wake.sec = PushHourMinute[1] * 3600 + PushHourMinute[2] * 60
             /\ ~TimeLE(q.wake, r.fired)
             /\ ~TimeLE(q.wake, now')]_vars

\* the scheduler asleep after a completed cycle, until the push instant of
\* the day after the one that started that cycle
C14_Witness ==
  /\ task["sched"].pc = "d_sleep"
  /\ task["sched"].fired # NoTime
  /\ task["sched"].wake = Time(task["sched"].fired.day + 1, task["sched"].fired.sec)
  /\ TotalSeconds(now, task["sched"].fired) >= Cooldown
  /\ TotalSeconds(now, task["sched"].fired) < RecoverySleep
  /\ config.save_days > 0

\* the first response of an indirect attempt lets the attempt go on: HTTP
\* 200, a body with code 200 and an image URL that is there and not empty
GoesOn(resp) ==
  /\ resp.status = 200
  /\ resp.body.parses
  /\ resp.body.code = 200
  /\ resp.body.imageUrl = "url"

\* C15: in the indirect mode the response to the first GET of an attempt is
\* followed by the second GET exactly when it has HTTP 200, code 200 and a
\* non-empty image URL; otherwise the attempt fails with no further GET
\* and counts as one attempt, with the message of the response when its
\* code is not 200; the file is written only in the step that receives
\* HTTP 200 for the second GET.
C15_IndirectSecondGetIffFirstOk ==
  [][\A t \in Tasks :
       LET r == task[t]
           q == task'[t]
       IN config.news_type = "indirect" =>
            /\ (r.pc = "dl_get" /\ q # r /\ q.pc # "stopped") =>
                 /\ q.resp.status \in Statuses /\ q.resp.body \in Bodies
                 /\ files' = files
                 /\ IF GoesOn(q.resp)
                    THEN /\ q.pc = "dl_img" /\ q.gets = r.gets + 1
                         /\ q.attempt = r.attempt /\ q.dlLog = r.dlLog
                    ELSE /\ q.pc # "dl_img" /\ q.gets = r.gets
                         /\ q.dlLog = Append(r.dlLog, "failed")
                         /\ Len(q.dlLog) = r.attempt + 1
                 /\ (q.resp.status = 200 /\ q.resp.body.parses
                       /\ q.resp.body.code # 200) => q.exc = q.resp.body.msg
            /\ (InDownload(r) /\ files' # files) =>
                 /\ r.pc = "dl_img" /\ GoesOn(r.resp)
                 /\ q.imgStatus = 200]_vars

\* the first attempt of an indirect download failed on a response with code
\* 500 that did carry an image URL: no second GET was issued
C15_Witness ==
  /\ config.news_type = "indirect"
  /\ task["cmd"].pc = "dl_wait"
  /\ task["cmd"].resp.status = 200
  /\ task["cmd"].resp.body.code = 500
  /\ task["cmd"].resp.body.imageUrl = "url"
  /\ task["cmd"].exc = "bad"
  /\ task["cmd"].gets = 1
  /\ task["cmd"].dlLog = <<"failed">>

\* C16: the sweep called with save_days <= 0 raises its ValueError and
\* leaves every file of the cache directory as it was.
C16_BadSaveDaysDeletesNothing ==
  [][(ncmds' = ncmds + 1 /\ config.save_days <= 0) =>
       /\ task'["cmd"].out = <<"raised">>
       /\ task'["cmd"].exc = "ValueError: save_days"
       /\ files' = files]_vars

\* the clean command raised with save_days = 0, yesterday's and today's
\* files still there
C16_Witness ==
  /\ ncmds = 1
  /\ config.save_days = 0
  /\ task["cmd"].out = <<"raised">>
  /\ task["cmd"].exc = "ValueError: save_days"
  /\ files[NewsFileName(Time(now.day - 1, 0))] = "old"
  /\ files[NewsFileName(now)] = "old"

\* the day each name is dated
DateOf == [n \in Names |-> DateOfName(n)]

\* the file is one the sweep is to delete: it is there and its name is dated
\* at least save_days days before today
Eligible(n) ==
  /\ files[n] # "absent"
  /\ DateOf[n] # NoDate
  /\ now.day - DateOf[n] >= config.save_days

\* C17: a sweep with save_days > 0 returns normally even when a deletion
\* raises: the file whose deletion failed stays as it was, every other
\* eligible file is deleted in the same call, and nothing else changes.
C17_DeletionErrorDoesNotStopTheSweep ==
  [][(ncmds' = ncmds + 1 /\ config.save_days > 0) =>
       /\ task'["cmd"].out = <<"cleaned">>
       /\ task'["cmd"].exc = "none"
       /\ \E u \in Undeletables :
            \A n \in Names :
              files'[n] = IF Eligible(n) /\ n \notin u THEN "absent" ELSE files[n]]_vars

\* a sweep with save_days = 1 that could not delete the file of two days
\* ago and did delete yesterday's
C17_Witness ==
  /\ ncmds = 1
  /\ config.save_days = 1
  /\ task["cmd"].out = <<"cleaned">>
  /\ files[NewsFileName(Time(now.day - 2, 0))] = "old"
  /\ NewsFileName(Time(now.day - 1, 0)) \in task["cmd"].removed
  /\ files[NewsFileName(Time(now.day - 1, 0))] = "absent"

\* the messages of the attempts that fail before the file is opened: the
\* request raised or timed out, the status is not 200, the body does not
\* parse, it carries an error code, or it carries no image URL
NetworkReasons == {"timeout", "http_status", "malformed", "bad", "no_imageUrl"}

\* the step ends an attempt of the task with a failure
FailsAttempt(t) ==
  /\ task[t].pc \in {"dl_get", "dl_img"}
  /\ task'[t].dlLog = Append(task[t].dlLog, "failed")

\* C18: an attempt that fails for a network or protocol reason leaves every
\* file of the cache as it was, the one at the target path included, be
\* it there or not; so do the GETs and the waits between the attempts: a
\* download whose attempts all fail that way changes no file.
C18_FailedDownloadLeavesCacheUnchanged ==
  [][\A t \in Tasks :
       /\ (FailsAttempt(t) /\ task'[t].exc \in NetworkReasons) => files' = files
       /\ (task[t].pc = "dl_get" /\ task'[t].pc = "dl_img") => files' = files
       /\ task[t].pc = "dl_wait" => files' = files
       /\ (InDownload(task[t]) /\ files' # files) =>
            /\ \A n \in Names \ {task[t].path} : files'[n] = files[n]
            /\ task'[t].exc \in {"none", "write_error"}]_vars

\* a forced refresh that gave up after its third attempt, failed as the
\* others on a status other than 200, with the earlier copy of today's
\* file still there
C18_Witness ==
  /\ task["cmd"].pc = "c_updated"
  /\ ~IsNone(task["cmd"].dlRet)
  /\ ~task["cmd"].dlRet.ok
  /\ task["cmd"].dlLog = <<"failed", "failed", "failed">>
  /\ task["cmd"].exc = "http_status"
  /\ task["cmd"].path = NewsFileName(now)
  /\ files[task["cmd"].path] = "old"

\* C19: for no save_days >= 1 is the file named after today old enough to
\* be deleted, and the sweep of a scheduled cycle leaves today's file as it
\* is: the file a successful refresh has written is there when the
\* broadcast of the same cycle starts and is what that broadcast reads.
C19_PruneKeepsTodaysFile ==
  /\ [](\A save_days \in 1..MaxSaveDays :
          ~IsExpired(NewsFileName(now), now.day, save_days))
  /\ [][LET r     == task["sched"]
            q     == task'["sched"]
            today == NewsFileName(now)
        IN /\ (r.pc = "d_updated" /\ q.pc \notin {"d_updated", "stopped"}
                 /\ config.save_days >= 1) =>
                /\ files'[today] = files[today]
                /\ InCycleBroadcast(q)
                /\ r.dlRet.ok => r.path = today /\ files'[today] = "sched"
           /\ (InCycleBroadcast(r) /\ r.pc = "bc_next" /\ q.pc = "bc_got"
                 /\ files[today] = "sched") =>
                /\ q.existed /\ q.gets = 0
                /\ q.ret = Result(today, TRUE)]_vars

\* the broadcast of a cycle with save_days = 1 has read from the cache the
\* file the refresh of that cycle wrote
C19_Witness ==
  /\ config.save_days >= 1
  /\ task["sched"].pc = "bc_got"
  /\ task["sched"].stack = <<"d_cool">>
  /\ task["sched"].tgt = 1
  /\ task["sched"].existed
  /\ task["sched"].gets = 0
  /\ task["sched"].ret = Result(NewsFileName(now), TRUE)
  /\ files[NewsFileName(now)] = "sched"

====
